---------------------------- MODULE Spec2Model ----------------------------
(***************************************************************************)
(* A model of impfi (src/impfi/impfi.cpp): the scanner that reads the      *)
(* import table of each PE file of a directory straight from the file's    *)
(* bytes and reports the files importing one of the requested names.       *)
(*                                                                         *)
(* The model is of the x64 build (_M_X64): IMAGE_NT_HEADERS is the 64-bit  *)
(* layout and IMAGE_THUNK_DATA is 8 bytes wide.  A file is a byte          *)
(* sequence; every structure is decoded from its bytes, little-endian.     *)
(* A DWORD is kept as two 16-bit halves [hi, lo] so that the 32-bit        *)
(* unsigned arithmetic of the code (wrap-around included) is exact.        *)
(***************************************************************************)
EXTENDS Integers, Sequences, FiniteSets, TLC

VARIABLES
    dir,                \* the directory: the entries directory_iterator yields
    imports,            \* ppszImports: argv[3..], the requested names
    pc,                 \* position of main in its per-file sequence
    idx,                \* position of the directory iterator (1-based)
    fpos,               \* file position indicator of f
    DosHeader,          \* main's IMAGE_DOS_HEADER
    NtHeaders,          \* main's IMAGE_NT_HEADERS (the fields the code reads)
    Sections,           \* std::vector<IMAGE_SECTION_HEADER>
    ImportDescriptors,  \* std::vector<IMAGE_IMPORT_DESCRIPTOR>
    ImportDllNames,     \* std::vector<std::string>
    ImportThunkNames,   \* std::vector<std::vector<std::string>>
    NumberOfEntries,    \* local of ReadImportDescriptors
    i,                  \* loop counter of ReadImportDescriptors
    ThunkOffset,        \* local of ReadImportDescriptors
    Offset,             \* local of ReadImportDescriptors; result of a resolve
    Rva,                \* argument of the last SectionRvaFileOffset call
    ret,                \* value returned by the last Read* call
    importCount,        \* main's importCount
    oss,                \* main's oss: the matched names, in order
    numResults,         \* main's numResults
    results,            \* what was written to std::cout, one record per result
    diags,              \* what was written by printf, one record per line
    trace,              \* per directory entry, how its iteration ended
    maxRead             \* end offset of the furthest successful fread on f

vars == << dir, imports, pc, idx, fpos, DosHeader, NtHeaders, Sections,
           ImportDescriptors, ImportDllNames, ImportThunkNames,
           NumberOfEntries, i, ThunkOffset, Offset, Rva, ret, importCount,
           oss, numResults, results, diags, trace, maxRead >>

---------------------------------------------------------------------------
(* Structure sizes and field offsets of the x64 build, and the magic      *)
(* numbers the code compares against.                                      *)

SizeofMagic == 2
SizeofDosHeader == 64
SizeofNtHeaders == 264
SizeofSectionHeader == 40
SizeofImportDescriptor == 20
SizeofThunk == 8
SizeofHint == 2
SizeofName == 32

OffLfanew == 60
OffMachine == 4
OffNumberOfSections == 6
OffOptMagic == 24
OffImportVA == 144
OffImportSize == 148
OffVirtualSize == 8
OffVirtualAddress == 12
OffPointerToRawData == 20
OffDescName == 12
OffFirstThunk == 16

MZ == 23117
PE == 17744
MachineAMD64 == 34404
OptHdrMagic == 523

WordMod == 2^16

---------------------------------------------------------------------------
(* 32-bit unsigned arithmetic on [hi, lo].                                 *)

DW(h, l) == [hi |-> h, lo |-> l]

DwZero == DW(0, 0)

DwFromInt(n) == DW(n \div WordMod, n % WordMod)

DwAdd(a, b) ==
    LET s == a.lo + b.lo
    IN  DW((a.hi + b.hi + (s \div WordMod)) % WordMod, s % WordMod)

DwSub(a, b) ==
    LET borrow == IF a.lo < b.lo THEN 1 ELSE 0
    IN  DW((a.hi - b.hi - borrow + 2 * WordMod) % WordMod,
           (a.lo - b.lo + WordMod) % WordMod)

DwLt(a, b) == a.hi < b.hi \/ (a.hi = b.hi /\ a.lo < b.lo)

DwLe(a, b) == a = b \/ DwLt(a, b)

\* a / d for a small divisor d (d * WordMod fits an integer)
DwDiv(a, d) ==
    LET r == a.hi % d
    IN  DW(a.hi \div d, (r * WordMod + a.lo) \div d)

\* (long)a < 0: the cast of a DWORD to a 32-bit signed long
LongIsNegative(a) == a.hi >= WordMod \div 2

\* (long)a when it is not negative
LongValue(a) == a.hi * WordMod + a.lo

Max(a, b) == IF a >= b THEN a ELSE b


---------------------------------------------------------------------------
(* File contents.  A directory entry names an image of the catalogue       *)
(* Images, optionally with one 16-bit word overwritten (poff, pval) and    *)
(* cut to its first `size` bytes; ByteAt is the byte the file holds at an  *)
(* offset.  `ext` says whether the entry's extension equals pszExtension,  *)
(* `canOpen` whether fopen_s succeeds on it.  An entry e handed to the     *)
(* operators below carries the image's bytes as e.bytes (see Cur).         *)

W16(v) == << v % 256, v \div 256 >>

W32(d) == W16(d.lo) \o W16(d.hi)

Zeros(n) == [k \in 1..n |-> 0]

Pad(str, n) == str \o Zeros(n - Len(str))

IoCreateDevice == << 73, 111, 67, 114, 101, 97, 116, 101, 68, 101, 118, 105, 99, 101 >>
iocreatedevice == << 105, 111, 99, 114, 101, 97, 116, 101, 100, 101, 118, 105, 99, 101 >>
ZwOpenProcess == << 90, 119, 79, 112, 101, 110, 80, 114, 111, 99, 101, 115, 115 >>
LongName == [k \in 1..40 |-> 88]
NtoskrnlExe == << 110, 116, 111, 115, 107, 114, 110, 108, 46, 101, 120, 101 >>
HalDll == << 72, 65, 76, 46, 100, 108, 108 >>

DosHeaderBytes(lfanew) ==
    W16(MZ) \o Zeros(OffLfanew - SizeofMagic) \o W32(lfanew)

NtHeadersBytes(machine, nsec, optMagic, impVA, impSize) ==
    W32(DW(0, PE)) \o W16(machine) \o W16(nsec)
        \o Zeros(OffOptMagic - OffNumberOfSections - 2) \o W16(optMagic)
        \o Zeros(OffImportVA - OffOptMagic - 2) \o W32(impVA) \o W32(impSize)
        \o Zeros(SizeofNtHeaders - OffImportSize - 4)

SectionBytes(vsize, va, raw) ==
    Zeros(OffVirtualSize) \o W32(vsize) \o W32(va) \o Zeros(4) \o W32(raw)
        \o Zeros(SizeofSectionHeader - OffPointerToRawData - 4)

DescriptorBytes(name, thunk) ==
    Zeros(OffDescName) \o W32(name) \o W32(thunk)

ThunkBytes(rva) == W32(rva) \o Zeros(SizeofThunk - 4)

ByNameBytes(hint, name) == W16(hint) \o Pad(name, SizeofName)

\* file offset of the data the sections map, and the RVA of its first byte
DataOff == SizeofDosHeader + SizeofNtHeaders + 2 * SizeofSectionHeader
RvaBase == 16 * 256
RvaOf(rel) == DwFromInt(RvaBase + rel)

\* Two import descriptors and the terminating one, the two DLL names, the
\* thunk arrays (the first DLL imports s1 and s2, the second s3; each array
\* ends with a zero thunk), and the three import-by-name structures.
ImportData(s1, s2, s3) ==
    DescriptorBytes(RvaOf(60), RvaOf(124))
        \o DescriptorBytes(RvaOf(92), RvaOf(148))
        \o Zeros(SizeofImportDescriptor)
        \o Pad(NtoskrnlExe, SizeofName) \o Pad(HalDll, SizeofName)
        \o ThunkBytes(RvaOf(164)) \o ThunkBytes(RvaOf(198)) \o ThunkBytes(DwZero)
        \o ThunkBytes(RvaOf(232)) \o ThunkBytes(DwZero)
        \o ByNameBytes(1, s1) \o ByNameBytes(2, s2) \o W16(3) \o s3
        \o Zeros(SizeofName)

Image(machine, optMagic, sec1, sec2, s1, s2, s3) ==
    DosHeaderBytes(DwFromInt(SizeofDosHeader))
        \o NtHeadersBytes(machine, 2, optMagic, RvaOf(0),
                          DwFromInt(3 * SizeofImportDescriptor))
        \o sec1 \o sec2 \o ImportData(s1, s2, s3)

\* 1: a well-formed image, sections disjoint.
\* 2: another one; its two sections overlap from RVA 0x1080 on, and only the
\*    first maps the import data to where it is.
\* 3: an image of another machine: IMAGE_FILE_MACHINE_I386 (0x14c), with the
\*    32-bit optional header magic (0x10b).
Images ==
    << Image(MachineAMD64, OptHdrMagic,
             SectionBytes(DwFromInt(1024), RvaOf(0), DwFromInt(DataOff)),
             SectionBytes(DwFromInt(1024), RvaOf(4096), DwFromInt(0)),
             IoCreateDevice, ZwOpenProcess, IoCreateDevice),
       Image(MachineAMD64, OptHdrMagic,
             SectionBytes(DwFromInt(1024), RvaOf(0), DwFromInt(DataOff)),
             SectionBytes(DwFromInt(4096), RvaOf(128), DwFromInt(0)),
             ZwOpenProcess, iocreatedevice, LongName),
       Image(332, 267,
             SectionBytes(DwFromInt(1024), RvaOf(0), DwFromInt(DataOff)),
             SectionBytes(DwFromInt(1024), RvaOf(4096), DwFromInt(0)),
             IoCreateDevice, ZwOpenProcess, IoCreateDevice) >>

ImageLen(img) == Len(Images[img])

\* Then applied to the value of v: v is computed once, as a local of the
\* source is, however often Then uses it
Bind(v, Then(_)) == CHOOSE r \in { Then(x) : x \in { v } } : TRUE

ByteAt(e, o) ==
    IF o = e.poff THEN e.pval % 256
    ELSE IF o = e.poff + 1 THEN e.pval \div 256
    ELSE IF o < e.size THEN e.bytes[o + 1]
    ELSE 0

U16At(e, o) == ByteAt(e, o) + 256 * ByteAt(e, o + 1)

U32At(e, o) == DW(U16At(e, o + 2), U16At(e, o))

Entry(path, ext, canOpen, img, size, poff, pval) ==
    [path |-> path, ext |-> ext, canOpen |-> canOpen, img |-> img,
     size |-> size, poff |-> poff, pval |-> pval]

\* fread taken to have succeeded as soon as one byte was left to read
FreadAnyLeft(size, pos, n) == size - pos > 0

\* fread( buf, n, 1, f ) at position pos of a file of `size` bytes returns 1
FreadOk(size, pos, n) == size - pos >= n

\* A field of a structure read at pos: the file's bytes where the read
\* reached them, the buffer's previous content where it fell short.
Get16(e, pos, off, old) ==
    IF e.size - pos >= off + 2 THEN U16At(e, pos + off) ELSE old

Get32(e, pos, off, old) ==
    IF e.size - pos >= off + 4 THEN U32At(e, pos + off) ELSE old

\* The std::string made from char Name[32] after Name[31] = 0: the bytes
\* before the first zero among the first 31.
RECURSIVE CStrFrom(_, _, _)
CStrFrom(e, pos, k) ==
    IF k >= SizeofName - 1 \/ ByteAt(e, pos + k) = 0 THEN << >>
    ELSE << ByteAt(e, pos + k) >> \o CStrFrom(e, pos, k + 1)

CStr(e, pos) == Bind(e, LAMBDA f : CStrFrom(f, pos, 0))

---------------------------------------------------------------------------
(* The program state as a record s with one field per variable, and the    *)
(* images on disk as s.disk; each function of the source is an operator    *)
(* from the state before the call to the state after it, with s.ret the    *)
(* value it returned.                                                      *)

State ==
    [dir |-> dir, imports |-> imports, pc |-> pc, idx |-> idx, fpos |-> fpos,
     DosHeader |-> DosHeader, NtHeaders |-> NtHeaders, Sections |-> Sections,
     ImportDescriptors |-> ImportDescriptors,
     ImportDllNames |-> ImportDllNames, ImportThunkNames |-> ImportThunkNames,
     NumberOfEntries |-> NumberOfEntries, i |-> i,
     ThunkOffset |-> ThunkOffset, Offset |-> Offset, Rva |-> Rva, ret |-> ret,
     importCount |-> importCount, oss |-> oss, numResults |-> numResults,
     results |-> results, diags |-> diags, trace |-> trace,
     maxRead |-> maxRead, disk |-> Images]

\* the current directory entry, with the bytes of its image on disk
Cur(s) ==
    LET e == s.dir[s.idx]
    IN  [path |-> e.path, ext |-> e.ext, canOpen |-> e.canOpen,
         size |-> e.size, poff |-> e.poff, pval |-> e.pval,
         bytes |-> s.disk[e.img]]

\* printf( "%s - <msg>\n", Path )
Printf(s, msg) ==
    [s EXCEPT !.diags = Append(@, [path |-> Cur(s).path, msg |-> msg])]

Return(s, code) == [s EXCEPT !.ret = code]

\* a successful fread of n bytes at the current position
Consumed(s, n) ==
    [s EXCEPT !.fpos = @ + n, !.maxRead = Max(@, s.fpos + n)]

\* a short fread: the position is left at the end of the file
Short(s) == [s EXCEPT !.fpos = Max(@, Cur(s).size)]

CanRead(s, n) == FreadOk(Cur(s).size, s.fpos, n)

ReadMagicNumber(s) ==
    Bind([s EXCEPT !.DosHeader.e_magic = Get16(Cur(s), s.fpos, 0, 0)],
         LAMBDA s1 :
    IF ~CanRead(s, SizeofMagic)
    THEN Return(Printf(Short(s1),
             "Too small to read magic number from DOS header"), 1)
    ELSE IF s1.DosHeader.e_magic # MZ
    THEN Return(Printf(Consumed(s1, SizeofMagic),
             "Incorrect magic number from DOS header"), 2)
    ELSE Return(Consumed(s1, SizeofMagic), 0))

\* ReadNtHeaders without the check of FileHeader.Machine
MachineIsAny(machine) == TRUE

\* FileHeader.Machine is the machine the build targets (_M_X64)
MachineIsTarget(machine) == machine = MachineAMD64

\* The fields of IMAGE_NT_HEADERS the code reads, after fread at pos.
NtHeadersAt(e, pos, old) ==
    Bind(e, LAMBDA f :
    [Signature |-> Get32(f, pos, 0, old.Signature),
     Machine |-> Get16(f, pos, OffMachine, old.Machine),
     NumberOfSections |-> Get16(f, pos, OffNumberOfSections, old.NumberOfSections),
     Magic |-> Get16(f, pos, OffOptMagic, old.Magic),
     ImportVA |-> Get32(f, pos, OffImportVA, old.ImportVA),
     ImportSize |-> Get32(f, pos, OffImportSize, old.ImportSize)])

ReadNtHeaders(s) ==
    LET rest == SizeofDosHeader - SizeofMagic
    IN
    Bind([s EXCEPT !.DosHeader.e_lfanew =
                       Get32(Cur(s), s.fpos, OffLfanew - SizeofMagic, DwZero)],
         LAMBDA s1 :
    IF ~CanRead(s, rest)
    THEN Return(Printf(Short(s1),
             "DOS header incomplete after magic number"), 1)
    ELSE IF LongIsNegative(s1.DosHeader.e_lfanew)
    THEN Return(Printf(Consumed(s1, rest), "NT header not found"), 2)
    ELSE
    Bind([Consumed(s1, rest) EXCEPT !.fpos = LongValue(s1.DosHeader.e_lfanew)],
         LAMBDA s2 :
    Bind([s2 EXCEPT !.NtHeaders = NtHeadersAt(Cur(s2), s2.fpos, @)],
         LAMBDA s3 :
    IF ~CanRead(s2, SizeofNtHeaders)
    THEN Return(Printf(Short(s3), "NT headers incomplete"), 3)
    ELSE
    Bind(Consumed(s3, SizeofNtHeaders), LAMBDA s4 :
    IF s4.NtHeaders.Signature # DW(0, PE)
    THEN Return(Printf(s4, "Incorrect NT header signature"), 4)
    ELSE IF ~MachineIsTarget(s4.NtHeaders.Machine)
    THEN Return(s4, 5)
    ELSE IF s4.NtHeaders.Magic # OptHdrMagic
    THEN Return(Printf(s4,
             "Optional header magic number is inconsistent with NT header architecture, corrupted?"), 6)
    ELSE Return(s4, 0)))))

SectionAt(e, pos) ==
    Bind(e, LAMBDA f :
    [VirtualSize |-> U32At(f, pos + OffVirtualSize),
     VirtualAddress |-> U32At(f, pos + OffVirtualAddress),
     PointerToRawData |-> U32At(f, pos + OffPointerToRawData)])

\* Sections.clear()
ClearedSections(old) == << >>

\* The loop of ReadSections from its k-th iteration on (k counts from 0).
RECURSIVE ReadSectionsFrom(_, _)
ReadSectionsFrom(s, k) ==
    IF k >= s.NtHeaders.NumberOfSections THEN Return(s, 0)
    ELSE IF ~CanRead(s, SizeofSectionHeader)
    THEN Return(Printf(Short(s), "Corrupted section"), 1)
    ELSE Bind([Consumed(s, SizeofSectionHeader)
                  EXCEPT !.Sections = Append(@, SectionAt(Cur(s), s.fpos))],
              LAMBDA s1 : ReadSectionsFrom(s1, k + 1))

ReadSections(s) ==
    Bind([s EXCEPT !.Sections = ClearedSections(@)],
         LAMBDA s1 : ReadSectionsFrom(s1, 0))

\* The loop of SectionRvaFileOffset from section k on (k counts from 1).
RECURSIVE SectionScan(_, _, _, _)
SectionScan(n, secs, rva, k) ==
    IF k > n THEN DwZero
    ELSE LET VirtualAddress == secs[k].VirtualAddress
             VirtualSize == secs[k].VirtualSize
         IN  IF /\ DwLe(VirtualAddress, rva)
                /\ DwLt(rva, DwAdd(VirtualAddress, VirtualSize))
             THEN DwAdd(DwSub(rva, VirtualAddress), secs[k].PointerToRawData)
             ELSE SectionScan(n, secs, rva, k + 1)

\* n is FileHeader->NumberOfSections
SectionRvaFileOffset(n, secs, rva) == SectionScan(n, secs, rva, 1)

\* SectionRvaFileOffset on the current file's section table; the argument
\* and the result are kept in Rva and Offset
Resolve(s, rva) ==
    [s EXCEPT !.Rva = rva,
              !.Offset = SectionRvaFileOffset(s.NtHeaders.NumberOfSections,
                                              s.Sections, rva)]

---------------------------------------------------------------------------
(* main's loop over the directory.  pc names the call main is about to     *)
(* make for the current entry; ReadImportDescriptors is taken one loop     *)
(* iteration at a time (pc = "ReadDescriptor", "DllName", "Thunk").        *)

\* fclose( f ); continue;  -- and the end of the loop body
Continue(s, stage) ==
    [s EXCEPT !.trace = Append(@, [path |-> Cur(s).path, stage |-> stage,
                                   ret |-> s.ret]),
              !.idx = @ + 1, !.fpos = 0, !.pc = "OpenEntry"]

\* the directory_iterator step, the extension filter and fopen_s
OpenEntry(s) ==
    IF s.idx > Len(s.dir) THEN [s EXCEPT !.pc = "Done"]
    ELSE IF ~Cur(s).ext THEN Continue(Return(s, 0), "extension")
    ELSE IF ~Cur(s).canOpen THEN Continue(Return(s, 0), "fopen_s")
    ELSE [s EXCEPT !.fpos = 0, !.maxRead = 0, !.pc = "ReadMagicNumber"]

CallReadMagicNumber(s) ==
    Bind(ReadMagicNumber(s), LAMBDA t :
    IF t.ret # 0 THEN Continue(t, "ReadMagicNumber")
    ELSE [t EXCEPT !.pc = "ReadNtHeaders"])

CallReadNtHeaders(s) ==
    Bind(ReadNtHeaders(s), LAMBDA t :
    IF t.ret # 0 THEN Continue(t, "ReadNtHeaders")
    ELSE [t EXCEPT !.pc = "ReadSections"])

CallReadSections(s) ==
    Bind(ReadSections(s), LAMBDA t :
    IF t.ret # 0 THEN Continue(t, "ReadSections")
    ELSE [t EXCEPT !.pc = "ReadImportDescriptors"])

\* ReadImportDescriptors returns code after printing msg, and main skips
\* the file
ImportsFail(s, msg, code) ==
    Continue(Return(Printf(s, msg), code), "ReadImportDescriptors")

\* DataDirectory[IMAGE_DIRECTORY_ENTRY_IMPORT].Size
\*     / sizeof( IMAGE_IMPORT_DESCRIPTOR ) - 1, in DWORD arithmetic
EntryCount(size) == DwSub(DwDiv(size, SizeofImportDescriptor), DW(0, 1))

\* ImportThunkNames left as the previous file filled it
KeptThunkNames(old) == old

\* ImportThunkNames.clear()
ClearedThunkNames(old) == << >>

\* fseek( f, (long)Offset, SEEK_SET ) succeeded
Seeked(s) == [s EXCEPT !.fpos = LongValue(s.Offset)]

\* ReadImportDescriptors up to its first loop
ImportsBegin(s) ==
    Bind([s EXCEPT !.ImportDescriptors = << >>,
                   !.ImportDllNames = << >>,
                   !.ImportThunkNames = ClearedThunkNames(@),
                   !.NumberOfEntries = EntryCount(s.NtHeaders.ImportSize)],
         LAMBDA s1 :
    Bind(Resolve(s1, s1.NtHeaders.ImportVA), LAMBDA s2 :
    IF LongIsNegative(s2.Offset)
    THEN ImportsFail(s2, "Import descriptor not found", 1)
    ELSE [Seeked(s2) EXCEPT !.i = 0, !.pc = "ReadDescriptor"]))

DescriptorAt(e, pos) ==
    Bind(e, LAMBDA f :
    [Name |-> U32At(f, pos + OffDescName),
     FirstThunk |-> U32At(f, pos + OffFirstThunk)])

\* one iteration of the first loop: for ( i < NumberOfEntries ) fread, push
ImportsReadDescriptor(s) ==
    IF ~DwLt(DwFromInt(s.i), s.NumberOfEntries)
    THEN [s EXCEPT !.i = 0, !.pc = "DllName"]
    ELSE IF ~CanRead(s, SizeofImportDescriptor)
    THEN ImportsFail(Short(s), "File too small to read import descriptor", 2)
    ELSE [Consumed(s, SizeofImportDescriptor)
             EXCEPT !.ImportDescriptors = Append(@, DescriptorAt(Cur(s), s.fpos)),
                    !.i = @ + 1]

\* one iteration of the second loop, up to the for ( ;; ) over the thunks
ImportsDllName(s) ==
    IF ~DwLt(DwFromInt(s.i), s.NumberOfEntries)
    THEN [Return(s, 0) EXCEPT !.pc = "Match"]
    ELSE
    Bind(Resolve(s, s.ImportDescriptors[s.i + 1].Name), LAMBDA s1 :
    IF LongIsNegative(s1.Offset)
    THEN ImportsFail(s1, "Import descriptor name not found", 3)
    ELSE
    Bind(Seeked(s1), LAMBDA s2 :
    IF ~CanRead(s2, SizeofName)
    THEN ImportsFail(Short(s2),
             "File too small to read import descriptor name", 4)
    ELSE
    Bind([Consumed(s2, SizeofName)
             EXCEPT !.ImportDllNames = Append(@, CStr(Cur(s2), s2.fpos))],
         LAMBDA s3 :
    Bind(Resolve(s3, s3.ImportDescriptors[s3.i + 1].FirstThunk), LAMBDA s4 :
    [s4 EXCEPT !.ThunkOffset = s4.Offset,
               !.ImportThunkNames = Append(@, << >>),
               !.pc = "Thunk"]))))

\* the walk ended by a hint of zero and not by the magic
IsZeroHint(hint) == hint = 0

\* ImportName.Hint == 'ZM'
IsLastThunk(hint) == hint = MZ

\* ThunkOffset += sizeof( IMAGE_THUNK_DATA )
NextThunkOffset(off) == DwAdd(off, DwFromInt(SizeofThunk))

\* the name pushed to the first list and not to the last
PushFirstThunkName(names, name) ==
    [names EXCEPT ![1] = Append(@, name)]

\* ImportThunkNames.back().push_back( Name )
PushThunkName(names, name) ==
    [names EXCEPT ![Len(names)] = Append(@, name)]

\* one iteration of for ( ;; ); the break goes on with the next descriptor
ImportsThunk(s) ==
    IF LongIsNegative(s.ThunkOffset)
    THEN ImportsFail(s, "Import descriptor first thunk not found", 5)
    ELSE
    Bind([s EXCEPT !.fpos = LongValue(s.ThunkOffset)], LAMBDA s1 :
    IF ~CanRead(s1, SizeofThunk)
    THEN ImportsFail(Short(s1),
             "File too small to read first thunk from file descriptor", 6)
    ELSE
    Bind(Resolve(Consumed(s1, SizeofThunk), U32At(Cur(s1), s1.fpos)),
         LAMBDA s2 :
    IF LongIsNegative(s2.Offset)
    THEN ImportsFail(s2, "Thunk name not found", 7)
    ELSE
    Bind(Seeked(s2), LAMBDA s3 :
    IF ~CanRead(s3, SizeofHint)
    THEN ImportsFail(Short(s3),
             "File too small to read thunk hint from thunk name", 8)
    ELSE
    Bind(Consumed(s3, SizeofHint), LAMBDA s4 :
    IF IsLastThunk(U16At(Cur(s3), s3.fpos))
    THEN [s4 EXCEPT !.i = @ + 1, !.pc = "DllName"]
    ELSE IF ~CanRead(s4, SizeofName)
    THEN ImportsFail(Short(s4),
             "File too small to read thunk name from thunk", 9)
    ELSE [Consumed(s4, SizeofName)
             EXCEPT !.ImportThunkNames =
                        PushThunkName(@, CStr(Cur(s4), s4.fpos)),
                    !.ThunkOffset = NextThunkOffset(@)]))))

\* flattening ImportThunkNames in the order of the loops over i and j
RECURSIVE Flatten(_)
Flatten(lists) ==
    IF lists = << >> THEN << >> ELSE Head(lists) \o Flatten(Tail(lists))

\* 0 == ImportThunkNames[i][j].compare( ppszImports[k] )
Matches(name, import) == name = import

\* the loop over k for one imported name: the requested names equal to it
RECURSIVE MatchesOf(_, _)
MatchesOf(name, imps) ==
    IF imps = << >> THEN << >>
    ELSE (IF Matches(name, Head(imps)) THEN << Head(imps) >> ELSE << >>)
             \o MatchesOf(name, Tail(imps))

\* the loops over i, j and k: one entry per importCount++
RECURSIVE MatchedNames(_, _)
MatchedNames(names, imps) ==
    IF names = << >> THEN << >>
    ELSE MatchesOf(Head(names), imps) \o MatchedNames(Tail(names), imps)

\* importCount without its reset before the loops
CountCarried(old, matched) == old + Len(matched)

\* importCount = 0, and what the loops add to it
CountFrom(old, matched) == Len(matched)

\* oss.str(""), and what the loops write to it
OssFrom(old, numImports, matched) ==
    IF numImports > 1 THEN matched ELSE << >>

\* numResults left as it was
SameResultNumber(n) == n

\* numResults++
NextResultNumber(n) == n + 1

\* the matching loops, the output of the result, fclose
MatchImports(s) ==
    Bind(MatchedNames(Flatten(s.ImportThunkNames), s.imports),
         LAMBDA matched :
    Bind([s EXCEPT !.importCount = CountFrom(@, matched),
                   !.oss = OssFrom(@, Len(s.imports), matched)],
         LAMBDA s1 :
    IF s1.importCount # 0
    THEN Continue([s1 EXCEPT !.results =
                                 Append(@, [index |-> s1.numResults,
                                            path |-> Cur(s1).path,
                                            size |-> Cur(s1).size,
                                            count |-> s1.importCount,
                                            names |-> s1.oss]),
                             !.numResults = NextResultNumber(@)],
                  "Match")
    ELSE Continue(s1, "Match")))

Step(s) ==
    CASE s.pc = "OpenEntry" -> OpenEntry(s)
      [] s.pc = "ReadMagicNumber" -> CallReadMagicNumber(s)
      [] s.pc = "ReadNtHeaders" -> CallReadNtHeaders(s)
      [] s.pc = "ReadSections" -> CallReadSections(s)
      [] s.pc = "ReadImportDescriptors" -> ImportsBegin(s)
      [] s.pc = "ReadDescriptor" -> ImportsReadDescriptor(s)
      [] s.pc = "DllName" -> ImportsDllName(s)
      [] s.pc = "Thunk" -> ImportsThunk(s)
      [] s.pc = "Match" -> MatchImports(s)
      [] OTHER -> s

\* the state in which main returns
RECURSIVE RunToEnd(_)
RunToEnd(s) ==
    IF s.pc = "Done" THEN s ELSE Bind(Step(s), LAMBDA t : RunToEnd(t))

---------------------------------------------------------------------------
(* The inputs.                                                             *)

MaxDirLen == 3
MaxSections == 2

\* argv[3..]: at least one name (argc >= 4); a name may be given twice
ImportLists ==
    { << IoCreateDevice >>,
      << IoCreateDevice, ZwOpenProcess >>,
      << ZwOpenProcess, ZwOpenProcess >> }

\* the words written over a file's bytes to damage it
PatchValues == { 0, SizeofImportDescriptor, MZ, WordMod - 1, RvaBase + 198 }

Whole(img) == Entry(1, TRUE, TRUE, img, ImageLen(img), -2, 0)

Patched(img, off, val) == [Whole(img) EXCEPT !.poff = off, !.pval = val]

Truncated(img, n) == [Whole(img) EXCEPT !.size = n]

\* every file that is image 1 with one word overwritten, or a prefix of it
DamagedFiles ==
    { Patched(1, off, val) : off \in 0..(ImageLen(1) - 2), val \in PatchValues }
        \cup { Truncated(1, n) : n \in 0..ImageLen(1) }

\* the files the directories of several entries are made of: the two
\* images of the target machine, one cut inside its second thunk array,
\* the image of another machine, that image with the target's machine
\* type, one that is no executable, one with another extension, one that
\* cannot be opened
MixedFiles ==
    << Whole(1), Whole(2),
       Truncated(1, DataOff + 250),
       Whole(3),
       Patched(3, SizeofDosHeader + OffMachine, MachineAMD64),
       Patched(1, 0, 0),
       [Whole(2) EXCEPT !.ext = FALSE],
       [Whole(1) EXCEPT !.canOpen = FALSE] >>

\* the entries get the paths 1, 2, ... in the order of iteration
Numbered(files) == [k \in 1..Len(files) |-> [files[k] EXCEPT !.path = k]]

\* the directories of up to MaxDirLen entries taken from files
DirsOf(files) ==
    { Numbered([k \in DOMAIN d |-> files[d[k]]]) :
        d \in UNION { [1..n -> 1..Len(files)] : n \in 0..MaxDirLen } }

MixedDirs == DirsOf(MixedFiles)

\* main's DosHeader and NtHeaders are not initialised: zero, or anything else
HeaderGarbage == { 0, WordMod - 1 }

InitState(d, imps, g) ==
    [dir |-> d, imports |-> imps, pc |-> "OpenEntry", idx |-> 1, fpos |-> 0,
     DosHeader |-> [e_magic |-> g, e_lfanew |-> DW(g, g)],
     NtHeaders |-> [Signature |-> DW(g, g), Machine |-> g,
                    NumberOfSections |-> g, Magic |-> g,
                    ImportVA |-> DW(g, g), ImportSize |-> DW(g, g)],
     Sections |-> << >>, ImportDescriptors |-> << >>,
     ImportDllNames |-> << >>, ImportThunkNames |-> << >>,
     NumberOfEntries |-> DwZero, i |-> 0, ThunkOffset |-> DwZero,
     Offset |-> DwZero, Rva |-> DwZero, ret |-> 0, importCount |-> 0,
     oss |-> << >>, numResults |-> 0, results |-> << >>, diags |-> << >>,
     trace |-> << >>, maxRead |-> 0, disk |-> Images]

\* the variables are the fields of t
Is(t) ==
    /\ dir = t.dir /\ imports = t.imports /\ pc = t.pc /\ idx = t.idx
    /\ fpos = t.fpos /\ DosHeader = t.DosHeader /\ NtHeaders = t.NtHeaders
    /\ Sections = t.Sections /\ ImportDescriptors = t.ImportDescriptors
    /\ ImportDllNames = t.ImportDllNames
    /\ ImportThunkNames = t.ImportThunkNames
    /\ NumberOfEntries = t.NumberOfEntries /\ i = t.i
    /\ ThunkOffset = t.ThunkOffset /\ Offset = t.Offset /\ Rva = t.Rva
    /\ ret = t.ret /\ importCount = t.importCount /\ oss = t.oss
    /\ numResults = t.numResults /\ results = t.results /\ diags = t.diags
    /\ trace = t.trace /\ maxRead = t.maxRead

\* the variables become the fields of t
Becomes(t) ==
    /\ dir' = t.dir /\ imports' = t.imports /\ pc' = t.pc /\ idx' = t.idx
    /\ fpos' = t.fpos /\ DosHeader' = t.DosHeader /\ NtHeaders' = t.NtHeaders
    /\ Sections' = t.Sections /\ ImportDescriptors' = t.ImportDescriptors
    /\ ImportDllNames' = t.ImportDllNames
    /\ ImportThunkNames' = t.ImportThunkNames
    /\ NumberOfEntries' = t.NumberOfEntries /\ i' = t.i
    /\ ThunkOffset' = t.ThunkOffset /\ Offset' = t.Offset /\ Rva' = t.Rva
    /\ ret' = t.ret /\ importCount' = t.importCount /\ oss' = t.oss
    /\ numResults' = t.numResults /\ results' = t.results /\ diags' = t.diags
    /\ trace' = t.trace /\ maxRead' = t.maxRead

\* one damaged file alone, or a directory of up to MaxDirLen files
Init ==
    \/ \E f \in DamagedFiles, g \in HeaderGarbage :
           Is(InitState(<< f >>, << IoCreateDevice, ZwOpenProcess >>, g))
    \/ \E d \in MixedDirs, imps \in ImportLists, g \in HeaderGarbage :
           Is(InitState(d, imps, g))

DoOpenEntry ==
    pc = "OpenEntry" /\ \E s \in { State } : \E t \in { OpenEntry(s) } : Becomes(t)

DoReadMagicNumber ==
    pc = "ReadMagicNumber" /\ \E s \in { State } : \E t \in { CallReadMagicNumber(s) } : Becomes(t)

DoReadNtHeaders ==
    pc = "ReadNtHeaders" /\ \E s \in { State } : \E t \in { CallReadNtHeaders(s) } : Becomes(t)

DoReadSections ==
    pc = "ReadSections" /\ \E s \in { State } : \E t \in { CallReadSections(s) } : Becomes(t)

DoImportsBegin ==
    pc = "ReadImportDescriptors" /\ \E s \in { State } : \E t \in { ImportsBegin(s) } : Becomes(t)

DoImportsReadDescriptor ==
    pc = "ReadDescriptor" /\ \E s \in { State } : \E t \in { ImportsReadDescriptor(s) } : Becomes(t)

DoImportsDllName ==
    pc = "DllName" /\ \E s \in { State } : \E t \in { ImportsDllName(s) } : Becomes(t)

DoImportsThunk ==
    pc = "Thunk" /\ \E s \in { State } : \E t \in { ImportsThunk(s) } : Becomes(t)

DoMatchImports ==
    pc = "Match" /\ \E s \in { State } : \E t \in { MatchImports(s) } : Becomes(t)

Next ==
    \/ DoOpenEntry
    \/ DoReadMagicNumber
    \/ DoReadNtHeaders
    \/ DoReadSections
    \/ DoImportsBegin
    \/ DoImportsReadDescriptor
    \/ DoImportsDllName
    \/ DoImportsThunk
    \/ DoMatchImports

Spec == Init /\ [][Next]_vars

\* The runs whose end is checked: every damaged file on its own, and the
\* directories made of the first four of the mixed files, with the two
\* requested names and zeroed headers.
InitLive ==
    \/ \E f \in DamagedFiles :
           Is(InitState(<< f >>, << IoCreateDevice, ZwOpenProcess >>, 0))
    \/ \E d \in DirsOf(SubSeq(MixedFiles, 1, 4)) :
           Is(InitState(d, << IoCreateDevice, ZwOpenProcess >>, 0))

\* main runs on until it returns: nothing it waits for can keep it from
\* its next statement
SpecLive == InitLive /\ [][Next]_vars /\ WF_vars(Next)

---------------------------------------------------------------------------
(* SectionRvaFileOffset on its own: any section table of up to MaxSections *)
(* sections and any RVA, the 32-bit values taken among DwSamples.          *)

\* 0, 0x10, 0x1000, 0x80000000, 0xFFFFFFF0
DwSamples ==
    { DwZero, DW(0, 16), DW(0, RvaBase), DW(WordMod \div 2, 0),
      DW(WordMod - 1, WordMod - 16) }

SectionSamples ==
    [VirtualSize : DwSamples, VirtualAddress : DwSamples,
     PointerToRawData : DwSamples]

SectionTables ==
    UNION { [1..n -> SectionSamples] : n \in 0..MaxSections }

InitResolve ==
    \E secs \in SectionTables, rva \in DwSamples :
        Is([InitState(<< >>, << IoCreateDevice >>, 0)
               EXCEPT !.pc = "Resolve", !.Sections = secs,
                      !.NtHeaders.NumberOfSections = Len(secs),
                      !.Rva = rva])

DoResolve ==
    pc = "Resolve" /\ \E s \in { State } :
        \E t \in { [Resolve(s, s.Rva) EXCEPT !.pc = "Resolved"] } : Becomes(t)

SpecResolve == InitResolve /\ [][DoResolve]_vars

---------------------------------------------------------------------------
(* The properties.                                                         *)

Last(seq) == seq[Len(seq)]

\* the entry whose iteration has just ended, with its bytes
Ended == Cur([State EXCEPT !.idx = idx - 1])

\* an iteration of main's loop has just ended
JustEnded == pc = "OpenEntry" /\ trace # << >>

\* C2 as stated, on the reference resolver: a section's declared range
\* [VirtualAddress, VirtualAddress + VirtualSize), the sum taken as a
\* number and not wrapped to 32 bits, holds rva
InDeclaredRange(sec, rva) ==
    /\ DwLe(sec.VirtualAddress, rva)
    /\ DwLt(DwSub(rva, sec.VirtualAddress), sec.VirtualSize)

FirstContaining(secs, rva) ==
    LET hits == { k \in 1..Len(secs) : InDeclaredRange(secs[k], rva) }
    IN  IF hits = {} THEN 0
        ELSE CHOOSE k \in hits : \A j \in hits : k <= j

\* C2: SectionRvaFileOffset returns (Rva - VirtualAddress) + PointerToRawData
\* of the first section whose declared range (taken without wrap-around)
\* holds Rva, and 0 when no section's declared range holds it.
C2_ResolveMatchesReference ==
    pc = "Resolved" =>
        LET k == FirstContaining(Sections, Rva)
        IN  Offset = IF k = 0 THEN DwZero
                     ELSE DwAdd(DwSub(Rva, Sections[k].VirtualAddress),
                                Sections[k].PointerToRawData)

\* C1: when the import directory's Size is below one descriptor (20), the
\* walk reads no descriptor and returns success with empty lists.
C1_SmallSizeMeansNoImports ==
    ( /\ JustEnded
      /\ Last(trace).stage \in { "ReadImportDescriptors", "Match" }
      /\ DwLt(NtHeaders.ImportSize, DwFromInt(SizeofImportDescriptor))
      /\ ~(Last(trace).stage = "ReadImportDescriptors" /\ Last(trace).ret = 1) )
    => /\ Last(trace).stage = "Match"
       /\ ImportDescriptors = << >>
       /\ ImportDllNames = << >>
       /\ ImportThunkNames = << >>

\* the results written for the entry of path p
ResultsOf(p) == { r \in { results[k] : k \in DOMAIN results } : r.path = p }

\* the diagnostics printed for the entry of path p
DiagsOf(p) == { d \in { diags[k] : k \in DOMAIN diags } : d.path = p }

\* SectionRvaFileOffset on the section table as it stands
Located(rva) ==
    SectionRvaFileOffset(NtHeaders.NumberOfSections, Sections, rva)

\* The names of the thunk array at file offset off of file e: those of the
\* entries before the first one whose hint is the magic, as long as the
\* entries lie in the file.
RECURSIVE ThunkArrayNames(_, _)
ThunkArrayNames(e, off) ==
    IF LongIsNegative(off) \/ e.size - LongValue(off) < SizeofThunk
    THEN << >>
    ELSE LET at == Located(U32At(e, LongValue(off)))
         IN  IF LongIsNegative(at) \/ e.size - LongValue(at) < SizeofHint
                \/ U16At(e, LongValue(at)) = MZ
             THEN << >>
             ELSE << CStr(e, LongValue(at) + SizeofHint) >>
                      \o ThunkArrayNames(e, DwAdd(off, DwFromInt(SizeofThunk)))

\* C4: when ReadImportDescriptors returns 0 for an import directory of at
\* least one descriptor, the three vectors have Size/20 - 1 elements each,
\* the k-th descriptor is the k-th record of the import table, and the k-th
\* DLL name and the k-th symbol list are the ones the k-th descriptor's Name
\* and FirstThunk lead to.
C4_OnePairPerDescriptor ==
    ( /\ pc = "Match"
      /\ ~DwLt(NtHeaders.ImportSize, DwFromInt(SizeofImportDescriptor)) )
    => LET n == Len(ImportDescriptors)
           e == Cur(State)
           table == LongValue(Located(NtHeaders.ImportVA))
       IN  /\ Len(ImportDllNames) = n
           /\ Len(ImportThunkNames) = n
           /\ DwDiv(NtHeaders.ImportSize, SizeofImportDescriptor) = DwFromInt(n + 1)
           /\ \A k \in 1..n :
                 /\ ImportDescriptors[k] =
                        DescriptorAt(e, table + (k - 1) * SizeofImportDescriptor)
                 /\ ImportDllNames[k] =
                        CStr(e, LongValue(Located(ImportDescriptors[k].Name)))
                 /\ ImportThunkNames[k] =
                        ThunkArrayNames(e, Located(ImportDescriptors[k].FirstThunk))

\* C4's case: a walk that returned 0 with two descriptors, the first DLL
\* with two symbols and the second with one
C4_Witness ==
    /\ pc = "Match"
    /\ Len(ImportDescriptors) = 2
    /\ Len(ImportThunkNames[1]) = 2
    /\ Len(ImportThunkNames[2]) = 1
    /\ ImportDllNames[1] = NtoskrnlExe

\* the entry of the thunk array of the walk that the next iteration of
\* for ( ;; ) reads, when it can be read: the RVA it holds
ThunkIsReadable ==
    /\ ~LongIsNegative(ThunkOffset)
    /\ Cur(State).size - LongValue(ThunkOffset) >= SizeofThunk

ThunkValue == U32At(Cur(State), LongValue(ThunkOffset))

\* the index (from 0) of the first entry of the thunk array at file offset
\* off that lies in no section or whose hint is the magic; the array has at
\* most `most` entries in the file
FirstLastThunk(e, off, most) ==
    LET IsLast(k) ==
            LET at == Located(U32At(e, off + k * SizeofThunk))
            IN  at = DwZero \/ U16At(e, LongValue(at)) = MZ
        lasts == { k \in 0..most : IsLast(k) }
    IN  IF lasts = {} THEN most + 1
        ELSE CHOOSE k \in lasts : \A j \in lasts : k <= j

C7_ResultsNumberedInOrder ==
    /\ numResults = Len(results)
    /\ \A k \in DOMAIN results : results[k].index = k - 1
    /\ \A k, j \in DOMAIN results : k < j => results[k].path < results[j].path
    /\ \A k \in DOMAIN results : results[k].count > 0
    /\ \A k \in DOMAIN trace :
           trace[k].stage # "Match" => ResultsOf(trace[k].path) = {}
    /\ (JustEnded /\ Last(trace).stage = "Match" /\ importCount = 0)
           => ResultsOf(Last(trace).path) = {}

\* C7's case: the third entry got the number 1, one entry before it having
\* been skipped
C7_Witness ==
    /\ pc = "Done"
    /\ Len(results) = 2
    /\ results[2].path = 3
    /\ results[2].index = 1
    /\ trace[2].stage = "ReadNtHeaders"

\* the headers of the entry whose iteration has just ended, decoded from
\* its bytes
EndedLfanew == U32At(Ended, OffLfanew)

EndedHeadersReadable ==
    /\ Ended.size >= SizeofDosHeader
    /\ ~LongIsNegative(EndedLfanew)
    /\ Ended.size - LongValue(EndedLfanew) >= SizeofNtHeaders

EndedSignatureIsPE == U32At(Ended, LongValue(EndedLfanew)) = DW(0, PE)

EndedMachine == U16At(Ended, LongValue(EndedLfanew) + OffMachine)

EndedOptMagic == U16At(Ended, LongValue(EndedLfanew) + OffOptMagic)

\* what ReadNtHeaders returned for the entry whose iteration has just ended
EndedNtRet == IF Last(trace).stage = "ReadNtHeaders" THEN Last(trace).ret ELSE 0

\* C8: a file of another machine ends ReadNtHeaders with 5, without a
\* diagnostic and without a result, whatever its optional header magic; 6 is
\* returned only for a file of the target machine; and 5 is returned only
\* when the headers could be read and carry the PE signature, a file failing
\* before that being reported with the earlier error.
C8_ArchitectureFilter ==
    ( /\ JustEnded
      /\ Last(trace).stage \notin { "extension", "fopen_s", "ReadMagicNumber" } )
    => /\ ( EndedHeadersReadable /\ EndedSignatureIsPE
              /\ EndedMachine # MachineAMD64 )
          => ( /\ EndedNtRet = 5
               /\ DiagsOf(Ended.path) = {}
               /\ ResultsOf(Ended.path) = {} )
       /\ EndedNtRet = 5
          => ( EndedHeadersReadable /\ EndedSignatureIsPE
                 /\ EndedMachine # MachineAMD64 )
       /\ EndedNtRet = 6
          => ( /\ EndedHeadersReadable /\ EndedSignatureIsPE
               /\ EndedMachine = MachineAMD64
               /\ EndedOptMagic # OptHdrMagic
               /\ DiagsOf(Ended.path) # {} )
       /\ ( ~EndedHeadersReadable \/ ~EndedSignatureIsPE )
          => ( EndedNtRet \in 1..4 /\ DiagsOf(Ended.path) # {} )

\* C8's case: a file of another machine whose optional header magic is not
\* the target's was skipped with 5
C8_Witness ==
    /\ JustEnded
    /\ Last(trace).stage = "ReadNtHeaders"
    /\ Last(trace).ret = 5
    /\ EndedOptMagic # OptHdrMagic

\* what a file is, whatever its place in the directory
Content(e) == [e EXCEPT !.path = 0]

\* how the iteration over the entry of path p ended, and what it wrote
Outcome(p) ==
    [stage |-> trace[p].stage,
     ret |-> trace[p].ret,
     emitted |-> { [size |-> r.size, count |-> r.count, names |-> r.names] :
                     r \in ResultsOf(p) }]

\* C9: two entries of one run that are the same file end the same way,
\* with the same result or none (same size, same count, same names in the
\* same order), whatever was scanned between them.
C9_SameFileSameOutcome ==
    \A a, b \in DOMAIN trace :
        Content(dir[a]) = Content(dir[b]) => Outcome(a) = Outcome(b)

\* C9's case: the same file first and third, matched both times, a file cut
\* inside its thunk arrays between them
C9_Witness ==
    /\ pc = "Done"
    /\ Len(dir) = 3
    /\ Content(dir[1]) = Content(dir[3])
    /\ trace[2].stage = "ReadImportDescriptors"
    /\ trace[2].ret = 9
    /\ Len(results) = 2
    /\ results[2].path = 3
    /\ results[2].names # << >>

\* the stages at which main gives a file up
FailureStages ==
    { "fopen_s", "ReadMagicNumber", "ReadNtHeaders", "ReadSections",
      "ReadImportDescriptors" }

\* the directory without its k-th entry
Without(d, k) ==
    Numbered([j \in 1..(Len(d) - 1) |-> IF j < k THEN d[j] ELSE d[j + 1]])

\* the results of a run over the directory without its k-th entry, under
\* the paths the entries have in the directory
ResultsWithout(k) ==
    LET rs == RunToEnd(InitState(Without(dir, k), imports, 0)).results
    IN  [j \in DOMAIN rs |->
            [rs[j] EXCEPT !.path = IF @ < k THEN @ ELSE @ + 1]]

\* C6: at the end of the scan every entry has been iterated; an entry given
\* up at the open, the magic check, ReadNtHeaders, ReadSections or
\* ReadImportDescriptors has no result, and the results of the others are
\* the ones of a scan of the directory without it.
C6_FailureIsolation ==
    pc = "Done" =>
        /\ Len(trace) = Len(dir)
        /\ \A k \in DOMAIN trace :
               trace[k].stage \in FailureStages =>
                   /\ ResultsOf(k) = {}
                   /\ results = ResultsWithout(k)

\* C6's case: the first entry was given up inside the thunk walk, names of
\* it already pushed, and the second entry has its result
C6_Witness ==
    /\ pc = "Done"
    /\ Len(dir) >= 2
    /\ trace[1].stage = "ReadImportDescriptors"
    /\ trace[1].ret = 9
    /\ ResultsOf(2) # {}

\* the imported names of the file just matched that are among the requested
\* names, each as often as it is imported, in the order of the DLLs and of
\* their thunks
RequestedSet == { imports[k] : k \in DOMAIN imports }

Intersection ==
    LET IsRequested(n) == n \in RequestedSet
    IN  SelectSeq(Flatten(ImportThunkNames), IsRequested)

\* C5: for a file parsed to the end, the match count is the size of the
\* multiset intersection of its imported names with the set of requested
\* names; a result is written iff the count is not zero; the matched names
\* are written only when more than one name was requested, as many as the
\* count, in the order the symbols were met.
C5_CountIsMultisetIntersection ==
    ( JustEnded /\ Last(trace).stage = "Match" ) =>
        /\ importCount = Len(Intersection)
        /\ (ResultsOf(Ended.path) # {}) <=> (Len(Intersection) # 0)
        /\ \A r \in ResultsOf(Ended.path) :
               /\ r.count = Len(Intersection)
               /\ r.names = IF Cardinality(RequestedSet) > 1
                            THEN Intersection ELSE << >>

\* C3: no read takes bytes past the end of the file it reads, and every
\* scan ends, each entry of the directory having been iterated: the loops
\* of ReadImportDescriptors end for every file, cut or damaged.
C3_EveryScanEnds ==
    /\ [] ( pc \notin { "OpenEntry", "Done" } => maxRead <= dir[idx].size )
    /\ <> ( pc = "Done" /\ Len(trace) = Len(dir) )

\* C3's case: the scan of a prefix of a well-formed file, cut inside its
\* thunk arrays, has ended
C3_Witness ==
    /\ pc = "Done"
    /\ Len(dir) = 1
    /\ dir[1].size < ImageLen(dir[1].img)
    /\ trace[1].stage = "ReadImportDescriptors"
    /\ trace[1].ret \in { 6, 8, 9 }

=============================================================================
